---- MODULE Spec2Model ----
(***************************************************************************)
(* The conflating relays of pgwhalen/conflate-talk: ConflateV1, ConflateV2 *)
(* and ConflateV3 (src/src/solutions), each a goroutine between a producer *)
(* blocked on the unbuffered channel inCh and a consumer receiving from    *)
(* the unbuffered channel outCh, with the Sale payload of src/src/main.go. *)
(***************************************************************************)
EXTENDS Naturals, Sequences, FiniteSets, TLC

\* Number of sales the producer makes before it stops (the producer of
\* main.go loops forever; the model cuts the run here).
MaxSubmit == 3

\* Number of timer objects that can be live at once (time.NewTimer allocates
\* a fresh one each call; a dead, unreferenced one is collected and reused).
NumTimers == 2

VARIABLES
    inCh,               \* <<v>> while the producer is blocked in `salesCh <- v`, else <<>>
    outCh,              \* TRUE while the consumer is blocked receiving from outCh
    pc,                 \* the relay goroutine: "await" (first select / receive) or "attempt" (second select)
    lastMsg,            \* ConflateV1 / ConflateV2: var lastMsg T
    conflatedMessage,   \* ConflateV3: var conflatedMessage T
    retryTimer,         \* var retryTimer *time.Timer (nil or a timer)
    retryCh,            \* var retryCh <-chan time.Time (nil or the C of a timer)
    timers,             \* the runtime's timers: running, and whether C holds the fire value
    submitted,          \* history: values the producer has offered on inCh, in order
    accepted,           \* history: values the relay has received from inCh, in order
    delivered,          \* history: values the consumer has received from outCh, in order
    cuts,               \* history: Len(accepted) at the moment of each delivery
    dropped,            \* history: Len(accepted) at each failed delivery attempt
    wake,               \* history: the branch the first select took last ("none", "input", "retry")
    other,              \* history: what the branch not taken was doing then ("none", "armed", "fired", "input")
    retries,            \* history: timer wake-ups taken since the consumer started waiting
    lastAttempt,        \* history: how the last delivery attempt ended ("none", "delivered", "failed")
    relayV3,            \* side-by-side run: the locals of a ConflateV3 goroutine and what it sent
    relayV2             \* side-by-side run: the locals of a ConflateV2 goroutine and what it sent

vars == <<inCh, outCh, pc, lastMsg, conflatedMessage, retryTimer, retryCh, timers,
          submitted, accepted, delivered, cuts, dropped, wake, other, retries,
          lastAttempt, relayV3, relayV2>>

relayVars == <<lastMsg, conflatedMessage, retryTimer, retryCh, timers>>
histVars == <<submitted, accepted, delivered, cuts, dropped, wake, other, retries>>
sideVars == <<relayV3, relayV2>>

----------------------------------------------------------------------------
(* The payload: type Sale of main.go.                                      *)

\* Sales the producer may make. Sale{} is among them; the other two differ in
\* both fields so that sum, max and "latest" are told apart.
Sale == { [dollars |-> 0, timestamp |-> 0],
          [dollars |-> 1, timestamp |-> 2],
          [dollars |-> 2, timestamp |-> 1] }

maxTime(t1, t2) == IF t1 > t2 THEN t1 ELSE t2

ConflateWith(s, s2) ==
    [dollars |-> s.dollars + s2.dollars, timestamp |-> maxTime(s.timestamp, s2.timestamp)]

\* Sale{}: the zero value of the type, what `var x Sale` holds.
SaleZero == [dollars |-> 0, timestamp |-> 0]

ZeroValue(s) == SaleZero

----------------------------------------------------------------------------
(* time.Timer: NewTimer, Stop, the runtime firing it into its channel C.   *)

nil == 0
TimerId == 1..NumTimers

Dead == [running |-> FALSE, C |-> FALSE]
Armed == [running |-> TRUE, C |-> FALSE]

\* The timer object a call of time.NewTimer returns: one that is not running
\* and is not the one the caller still holds.
FreeTimers(ts, old) == { t \in TimerId : ~ts[t].running /\ t # old }

\* timers after `retryTimer = time.NewTimer(retryInterval)` returned t: t is
\* armed; the timer held before is unreferenced and, unless still running,
\* collected.
NewTimer(ts, old, t) ==
    [u \in TimerId |-> IF u = t THEN Armed
                       ELSE IF u = old /\ ~ts[u].running THEN Dead
                       ELSE ts[u]]

\* The possible timers after t.Stop(): t no longer runs. A value it already
\* sent into C stays there (Go before 1.23) or is discarded (Go 1.23 on).
Stop(ts, t) ==
    { [ts EXCEPT ![t] = [running |-> FALSE, C |-> c]] : c \in {ts[t].C, FALSE} }

\* `if retryTimer != nil { retryTimer.Stop(); ... }`
StopIfSet(ts, t) == IF t # nil THEN Stop(ts, t) ELSE {ts}

\* `case <-retryCh` can proceed: retryCh is not nil and its timer has fired.
RetryReady == retryCh # nil /\ timers[retryCh].C

\* What the timer behind retryCh is doing: "fired" (its value waits in C),
\* "armed" (running, not yet fired) or "none" (no channel, or a spent one).
TimerStatus ==
    IF retryCh = nil THEN "none"
    ELSE IF timers[retryCh].C THEN "fired"
    ELSE IF timers[retryCh].running THEN "armed"
    ELSE "none"

\* `case ... <-inCh` can proceed: the producer is blocked sending.
InputReady == inCh # <<>>

\* The locals of a relay goroutine when it enters its loop, for the
\* side-by-side run: msg is lastMsg or conflatedMessage, sent is what it has
\* handed to the consumer.
RelayInit ==
    [pc |-> "await", msg |-> SaleZero, retryTimer |-> nil, retryCh |-> nil,
     timers |-> [t \in TimerId |-> Dead], sent |-> <<>>]

----------------------------------------------------------------------------
(* The collaborators of main.go and the Go runtime.                        *)

\* producer: `salesCh <- makeSale()` blocks until the relay receives.
producer ==
    /\ inCh = <<>>
    /\ Len(submitted) < MaxSubmit
    /\ \E v \in Sale :
        /\ inCh' = <<v>>
        /\ submitted' = Append(submitted, v)
    /\ UNCHANGED <<outCh, pc, relayVars, accepted, delivered, cuts, dropped, wake, other, retries>>
    /\ UNCHANGED <<lastAttempt, sideVars>>

\* consumer: back at `for s := range salesCh` after redrawUI, blocked receiving.
consumer ==
    /\ ~outCh
    /\ outCh' = TRUE
    /\ retries' = 0
    /\ UNCHANGED <<inCh, pc, relayVars, submitted, accepted, delivered, cuts, dropped, wake, other>>
    /\ UNCHANGED <<lastAttempt, sideVars>>

\* The runtime fires a running timer: it sends the time on the timer's C.
TimerFire ==
    \E t \in TimerId :
        /\ timers[t].running
        /\ timers' = [timers EXCEPT ![t] = [running |-> FALSE, C |-> TRUE]]
        /\ UNCHANGED <<inCh, outCh, pc, lastMsg, conflatedMessage, retryTimer, retryCh, histVars>>
        /\ UNCHANGED <<lastAttempt, sideVars>>

----------------------------------------------------------------------------
(* ConflateV3                                                              *)

\* RecvInputV3 without `retryTimer.Stop()`: the old timer keeps running.
RecvInputV3_NoStop ==
    /\ pc = "await"
    /\ InputReady
    /\ conflatedMessage' = ConflateWith(conflatedMessage, inCh[1])
    /\ retryCh' = IF retryTimer # nil THEN nil ELSE retryCh
    /\ inCh' = <<>>
    /\ accepted' = Append(accepted, inCh[1])
    /\ wake' = "input"
    /\ other' = TimerStatus
    /\ retries' = 0
    /\ pc' = "attempt"
    /\ UNCHANGED <<outCh, lastMsg, retryTimer, timers, submitted, delivered, cuts, dropped>>
    /\ UNCHANGED <<lastAttempt, sideVars>>

\* RecvInputV3 without `retryCh = nil`: the relay keeps listening to the
\* stopped timer's channel.
RecvInputV3_KeepCh ==
    /\ pc = "await"
    /\ InputReady
    /\ conflatedMessage' = ConflateWith(conflatedMessage, inCh[1])
    /\ timers' \in StopIfSet(timers, retryTimer)
    /\ inCh' = <<>>
    /\ accepted' = Append(accepted, inCh[1])
    /\ wake' = "input"
    /\ other' = TimerStatus
    /\ retries' = 0
    /\ pc' = "attempt"
    /\ UNCHANGED <<outCh, lastMsg, retryTimer, retryCh, submitted, delivered, cuts, dropped>>
    /\ UNCHANGED <<lastAttempt, sideVars>>

\* RecvInputV3 assigning instead of conflating, as ConflateV2 does.
RecvInputV3_Overwrite ==
    /\ pc = "await"
    /\ InputReady
    /\ conflatedMessage' = inCh[1]
    /\ timers' \in StopIfSet(timers, retryTimer)
    /\ retryCh' = IF retryTimer # nil THEN nil ELSE retryCh
    /\ inCh' = <<>>
    /\ accepted' = Append(accepted, inCh[1])
    /\ wake' = "input"
    /\ other' = TimerStatus
    /\ retries' = 0
    /\ pc' = "attempt"
    /\ UNCHANGED <<outCh, lastMsg, retryTimer, submitted, delivered, cuts, dropped>>
    /\ UNCHANGED <<lastAttempt, sideVars>>

\* RecvInputV3 followed by `continue`: the relay goes back to its first select
\* without attempting delivery.
RecvInputV3_NoAttempt ==
    /\ pc = "await"
    /\ InputReady
    /\ conflatedMessage' = ConflateWith(conflatedMessage, inCh[1])
    /\ timers' \in StopIfSet(timers, retryTimer)
    /\ retryCh' = IF retryTimer # nil THEN nil ELSE retryCh
    /\ inCh' = <<>>
    /\ accepted' = Append(accepted, inCh[1])
    /\ wake' = "input"
    /\ other' = TimerStatus
    /\ retries' = 0
    /\ pc' = "await"
    /\ UNCHANGED <<outCh, lastMsg, retryTimer, submitted, delivered, cuts, dropped>>
    /\ UNCHANGED <<lastAttempt, sideVars>>

\* First select, `case lastMsg := <-inCh`.
RecvInputV3 ==
    /\ pc = "await"
    /\ InputReady
    /\ conflatedMessage' = ConflateWith(conflatedMessage, inCh[1])
    /\ timers' \in StopIfSet(timers, retryTimer)
    /\ retryCh' = IF retryTimer # nil THEN nil ELSE retryCh
    /\ inCh' = <<>>
    /\ accepted' = Append(accepted, inCh[1])
    /\ wake' = "input"
    /\ other' = TimerStatus
    /\ retries' = 0
    /\ pc' = "attempt"
    /\ UNCHANGED <<outCh, lastMsg, retryTimer, submitted, delivered, cuts, dropped>>
    /\ UNCHANGED <<lastAttempt, sideVars>>

\* First select, `case <-retryCh`.
RecvRetryV3 ==
    /\ pc = "await"
    /\ RetryReady
    /\ timers' = [timers EXCEPT ![retryCh].C = FALSE]
    /\ wake' = "retry"
    /\ other' = IF InputReady THEN "input" ELSE "none"
    /\ retries' = IF outCh THEN retries + 1 ELSE retries
    /\ pc' = "attempt"
    /\ UNCHANGED <<inCh, outCh, lastMsg, conflatedMessage, retryTimer, retryCh,
                   submitted, accepted, delivered, cuts, dropped>>
    /\ UNCHANGED <<lastAttempt, sideVars>>

\* DeliverV3 without the reset to ZeroValue.
DeliverV3_NoReset ==
    /\ pc = "attempt"
    /\ outCh
    /\ outCh' = FALSE
    /\ delivered' = Append(delivered, conflatedMessage)
    /\ cuts' = Append(cuts, Len(accepted))
    /\ retries' = 0
    /\ pc' = "await"
    /\ UNCHANGED <<inCh, lastMsg, conflatedMessage, retryTimer, retryCh, timers, submitted,
                   accepted, dropped, wake, other>>
    /\ lastAttempt' = "delivered"
    /\ UNCHANGED sideVars

\* Second select, `case outCh <- conflatedMessage`.
DeliverV3 ==
    /\ pc = "attempt"
    /\ outCh
    /\ outCh' = FALSE
    /\ delivered' = Append(delivered, conflatedMessage)
    /\ cuts' = Append(cuts, Len(accepted))
    /\ conflatedMessage' = ZeroValue(conflatedMessage)
    /\ retries' = 0
    /\ pc' = "await"
    /\ UNCHANGED <<inCh, lastMsg, retryTimer, retryCh, timers, submitted, accepted,
                   dropped, wake, other>>
    /\ lastAttempt' = "delivered"
    /\ UNCHANGED sideVars

\* ArmRetryV3 that gives up the undelivered value, as ConflateV1 does.
ArmRetryV3_Drop ==
    /\ pc = "attempt"
    /\ ~outCh
    /\ FreeTimers(timers, retryTimer) # {}
    /\ LET t == CHOOSE u \in FreeTimers(timers, retryTimer) : TRUE
       IN  /\ timers' = NewTimer(timers, retryTimer, t)
           /\ retryTimer' = t
           /\ retryCh' = t
    /\ conflatedMessage' = ZeroValue(conflatedMessage)
    /\ dropped' = dropped \cup {Len(accepted)}
    /\ pc' = "await"
    /\ UNCHANGED <<inCh, outCh, lastMsg, submitted, accepted, delivered, cuts, wake, other,
                   retries>>
    /\ lastAttempt' = "failed"
    /\ UNCHANGED sideVars

\* ArmRetryV3 without `retryCh = retryTimer.C`: the timer is created but the
\* relay does not listen to it.
ArmRetryV3_NoCh ==
    /\ pc = "attempt"
    /\ ~outCh
    /\ FreeTimers(timers, retryTimer) # {}
    /\ LET t == CHOOSE u \in FreeTimers(timers, retryTimer) : TRUE
       IN  /\ timers' = NewTimer(timers, retryTimer, t)
           /\ retryTimer' = t
    /\ dropped' = dropped \cup {Len(accepted)}
    /\ pc' = "await"
    /\ UNCHANGED <<inCh, outCh, lastMsg, conflatedMessage, retryCh, submitted, accepted,
                   delivered, cuts, wake, other, retries>>
    /\ lastAttempt' = "failed"
    /\ UNCHANGED sideVars

\* The second select without its default branch: a blocking send.
ArmRetryV3_Block ==
    /\ pc = "attempt"
    /\ ~outCh
    /\ FALSE
    /\ UNCHANGED vars

\* ArmRetryV3 with a retry limit of one: after an attempt made on a timer
\* wake-up fails, no new timer is armed.
ArmRetryV3_Once ==
    /\ pc = "attempt"
    /\ ~outCh
    /\ FreeTimers(timers, retryTimer) # {}
    /\ LET t == CHOOSE u \in FreeTimers(timers, retryTimer) : TRUE
       IN  IF wake = "retry"
           THEN UNCHANGED <<timers, retryTimer, retryCh>>
           ELSE /\ timers' = NewTimer(timers, retryTimer, t)
                /\ retryTimer' = t
                /\ retryCh' = t
    /\ dropped' = dropped \cup {Len(accepted)}
    /\ pc' = "await"
    /\ UNCHANGED <<inCh, outCh, lastMsg, conflatedMessage, submitted, accepted,
                   delivered, cuts, wake, other, retries>>
    /\ lastAttempt' = "failed"
    /\ UNCHANGED sideVars

\* Second select, `default`.
ArmRetryV3 ==
    /\ pc = "attempt"
    /\ ~outCh
    /\ FreeTimers(timers, retryTimer) # {}
    /\ LET t == CHOOSE u \in FreeTimers(timers, retryTimer) : TRUE
       IN  /\ timers' = NewTimer(timers, retryTimer, t)
           /\ retryTimer' = t
           /\ retryCh' = t
    /\ dropped' = dropped \cup {Len(accepted)}
    /\ pc' = "await"
    /\ UNCHANGED <<inCh, outCh, lastMsg, conflatedMessage, submitted, accepted,
                   delivered, cuts, wake, other, retries>>
    /\ lastAttempt' = "failed"
    /\ UNCHANGED sideVars

Init ==
    /\ inCh = <<>>
    /\ outCh = FALSE
    /\ pc = "await"
    /\ lastMsg = SaleZero
    /\ conflatedMessage = SaleZero
    /\ retryTimer = nil
    /\ retryCh = nil
    /\ timers = [t \in TimerId |-> Dead]
    /\ submitted = <<>>
    /\ accepted = <<>>
    /\ delivered = <<>>
    /\ cuts = <<>>
    /\ dropped = {}
    /\ wake = "none"
    /\ other = "none"
    /\ retries = 0
    /\ lastAttempt = "none"
    /\ relayV3 = RelayInit
    /\ relayV2 = RelayInit

Next ==
    \/ producer
    \/ consumer
    \/ TimerFire
    \/ RecvInputV3
    \/ RecvRetryV3
    \/ DeliverV3
    \/ ArmRetryV3

Spec == Init /\ [][Next]_vars

\* The goroutine scheduler runs a goroutine that can proceed, a select among
\* ready cases picks each with equal chance (so a case ready again and again
\* is taken), and a running timer fires when its interval has passed. Nothing
\* makes the producer produce or the consumer come back.
FairSpec ==
    /\ Spec
    /\ SF_vars(RecvInputV3)
    /\ WF_vars(RecvRetryV3)
    /\ WF_vars(DeliverV3)
    /\ WF_vars(ArmRetryV3)
    /\ WF_vars(TimerFire)

----------------------------------------------------------------------------
(* ConflateV2                                                              *)

\* RecvInputV2 without `retryCh = nil`: the relay keeps listening to the
\* stopped timer's channel.
RecvInputV2_KeepCh ==
    /\ pc = "await"
    /\ InputReady
    /\ lastMsg' = inCh[1]
    /\ timers' \in StopIfSet(timers, retryTimer)
    /\ inCh' = <<>>
    /\ accepted' = Append(accepted, inCh[1])
    /\ wake' = "input"
    /\ other' = TimerStatus
    /\ retries' = 0
    /\ pc' = "attempt"
    /\ UNCHANGED <<outCh, conflatedMessage, retryTimer, retryCh, submitted, delivered, cuts,
                   dropped>>
    /\ UNCHANGED <<lastAttempt, sideVars>>

\* First select, `case lastMsg = <-inCh`.
RecvInputV2 ==
    /\ pc = "await"
    /\ InputReady
    /\ lastMsg' = inCh[1]
    /\ timers' \in StopIfSet(timers, retryTimer)
    /\ retryCh' = IF retryTimer # nil THEN nil ELSE retryCh
    /\ inCh' = <<>>
    /\ accepted' = Append(accepted, inCh[1])
    /\ wake' = "input"
    /\ other' = TimerStatus
    /\ retries' = 0
    /\ pc' = "attempt"
    /\ UNCHANGED <<outCh, conflatedMessage, retryTimer, submitted, delivered, cuts, dropped>>
    /\ UNCHANGED <<lastAttempt, sideVars>>

\* First select, `case <-retryCh`.
RecvRetryV2 ==
    /\ pc = "await"
    /\ RetryReady
    /\ timers' = [timers EXCEPT ![retryCh].C = FALSE]
    /\ wake' = "retry"
    /\ other' = IF InputReady THEN "input" ELSE "none"
    /\ retries' = IF outCh THEN retries + 1 ELSE retries
    /\ pc' = "attempt"
    /\ UNCHANGED <<inCh, outCh, lastMsg, conflatedMessage, retryTimer, retryCh,
                   submitted, accepted, delivered, cuts, dropped>>
    /\ UNCHANGED <<lastAttempt, sideVars>>

\* Second select, `case outCh <- lastMsg`.
DeliverV2 ==
    /\ pc = "attempt"
    /\ outCh
    /\ outCh' = FALSE
    /\ delivered' = Append(delivered, lastMsg)
    /\ cuts' = Append(cuts, Len(accepted))
    /\ retries' = 0
    /\ pc' = "await"
    /\ UNCHANGED <<inCh, lastMsg, conflatedMessage, retryTimer, retryCh, timers, submitted,
                   accepted, dropped, wake, other>>
    /\ lastAttempt' = "delivered"
    /\ UNCHANGED sideVars

\* The second select of ConflateV1 in ConflateV2: no timer, the value is given up.
ArmRetryV2_NoRetry ==
    /\ pc = "attempt"
    /\ ~outCh
    /\ dropped' = dropped \cup {Len(accepted)}
    /\ pc' = "await"
    /\ UNCHANGED <<inCh, outCh, lastMsg, conflatedMessage, retryTimer, retryCh, timers,
                   submitted, accepted, delivered, cuts, wake, other, retries>>
    /\ lastAttempt' = "failed"
    /\ UNCHANGED sideVars

\* Second select, `default`.
ArmRetryV2 ==
    /\ pc = "attempt"
    /\ ~outCh
    /\ FreeTimers(timers, retryTimer) # {}
    /\ LET t == CHOOSE u \in FreeTimers(timers, retryTimer) : TRUE
       IN  /\ timers' = NewTimer(timers, retryTimer, t)
           /\ retryTimer' = t
           /\ retryCh' = t
    /\ dropped' = dropped \cup {Len(accepted)}
    /\ pc' = "await"
    /\ UNCHANGED <<inCh, outCh, lastMsg, conflatedMessage, submitted, accepted,
                   delivered, cuts, wake, other, retries>>
    /\ lastAttempt' = "failed"
    /\ UNCHANGED sideVars

NextV2 ==
    \/ producer
    \/ consumer
    \/ TimerFire
    \/ RecvInputV2
    \/ RecvRetryV2
    \/ DeliverV2
    \/ ArmRetryV2

SpecV2 == Init /\ [][NextV2]_vars

\* The scheduling of FairSpec, for ConflateV2.
FairSpecV2 ==
    /\ SpecV2
    /\ SF_vars(RecvInputV2)
    /\ WF_vars(RecvRetryV2)
    /\ WF_vars(DeliverV2)
    /\ WF_vars(ArmRetryV2)
    /\ WF_vars(TimerFire)

----------------------------------------------------------------------------
(* ConflateV1                                                              *)

\* `lastMsg := <-inCh`
RecvInputV1 ==
    /\ pc = "await"
    /\ InputReady
    /\ lastMsg' = inCh[1]
    /\ inCh' = <<>>
    /\ accepted' = Append(accepted, inCh[1])
    /\ wake' = "input"
    /\ pc' = "attempt"
    /\ UNCHANGED <<outCh, conflatedMessage, retryTimer, retryCh, timers, submitted,
                   delivered, cuts, dropped, other, retries>>
    /\ UNCHANGED <<lastAttempt, sideVars>>

\* select, `case outCh <- lastMsg`.
DeliverV1 ==
    /\ pc = "attempt"
    /\ outCh
    /\ outCh' = FALSE
    /\ delivered' = Append(delivered, lastMsg)
    /\ cuts' = Append(cuts, Len(accepted))
    /\ retries' = 0
    /\ pc' = "await"
    /\ UNCHANGED <<inCh, lastMsg, conflatedMessage, retryTimer, retryCh, timers, submitted,
                   accepted, dropped, wake, other>>
    /\ lastAttempt' = "delivered"
    /\ UNCHANGED sideVars

\* The select without its default branch: a blocking send.
DropV1_Block ==
    /\ pc = "attempt"
    /\ ~outCh
    /\ FALSE
    /\ UNCHANGED vars

\* select, `default`.
DropV1 ==
    /\ pc = "attempt"
    /\ ~outCh
    /\ dropped' = dropped \cup {Len(accepted)}
    /\ pc' = "await"
    /\ UNCHANGED <<inCh, outCh, lastMsg, conflatedMessage, retryTimer, retryCh, timers,
                   submitted, accepted, delivered, cuts, wake, other, retries>>
    /\ lastAttempt' = "failed"
    /\ UNCHANGED sideVars

NextV1 ==
    \/ producer
    \/ consumer
    \/ RecvInputV1
    \/ DeliverV1
    \/ DropV1

SpecV1 == Init /\ [][NextV1]_vars

\* The scheduler runs the relay whenever it can proceed.
FairSpecV1 ==
    /\ SpecV1
    /\ WF_vars(RecvInputV1)
    /\ WF_vars(DeliverV1)
    /\ WF_vars(DropV1)

----------------------------------------------------------------------------
(* What the histories say.                                                 *)

\* Len(accepted) at the last delivery, 0 before the first.
LastCut == IF cuts = <<>> THEN 0 ELSE cuts[Len(cuts)]

\* The values accepted by the i-th delivery and not by the one before it.
Group(i) == SubSeq(accepted, (IF i = 1 THEN 0 ELSE cuts[i - 1]) + 1, cuts[i])

\* The values accepted since the last delivery.
Pending == SubSeq(accepted, LastCut + 1, Len(accepted))

\* The combine-fold of a sequence of values, starting from the identity.
RECURSIVE Fold(_)
Fold(seq) ==
    IF seq = <<>> THEN SaleZero
    ELSE ConflateWith(Fold(SubSeq(seq, 1, Len(seq) - 1)), seq[Len(seq)])

RECURSIVE SumDollars(_)
SumDollars(seq) ==
    IF seq = <<>> THEN 0
    ELSE SumDollars(SubSeq(seq, 1, Len(seq) - 1)) + seq[Len(seq)].dollars

\* This step hands a value to the consumer.
Delivers == Len(delivered') = Len(delivered) + 1

\* This step accepts a value from the producer.
Accepts == Len(accepted') = Len(accepted) + 1

----------------------------------------------------------------------------
(* ConflateV3: claims.                                                     *)

\* C1 (no loss): the i-th value handed to the consumer is the combine-fold,
\* from the identity, of the values accepted after the (i-1)-th delivery and up
\* to the i-th, a non-empty group; the groups in delivery order followed by the
\* values folded into the accumulator are exactly the accepted values, which
\* are the submitted values less the one the producer is still blocked on; the
\* dollars delivered plus the dollars held are the dollars accepted.
C1_NoLoss ==
    /\ Len(delivered) = Len(cuts)
    /\ \A i \in 1..Len(cuts) :
        /\ cuts[i] > (IF i = 1 THEN 0 ELSE cuts[i - 1])
        /\ cuts[i] <= Len(accepted)
        /\ delivered[i] = Fold(Group(i))
    /\ conflatedMessage = Fold(Pending)
    /\ accepted \o inCh = submitted
    /\ SumDollars(delivered) + conflatedMessage.dollars = SumDollars(accepted)

\* A delivery of two values conflated into one, after an earlier delivery,
\* with a further value waiting in the accumulator.
C1_Witness ==
    /\ Len(delivered) >= 1
    /\ \E i \in 1..Len(cuts) : Len(Group(i)) >= 2 /\ delivered[i].dollars >= 3
    /\ Pending # <<>>
    /\ conflatedMessage.dollars > 0

\* C4 (idempotent reset): a step that hands a value to the consumer leaves the
\* accumulator equal to the identity and hands over at least one value
\* accepted since the previous handoff; while nothing has been accepted since
\* the last handoff (or since the start) the relay is waiting in its first
\* select and no timer can wake it, so nothing is delivered before the first
\* submission and no timer firing delivers the identity.
C4_IdempotentReset ==
    /\ [][Delivers => conflatedMessage' = SaleZero /\ Pending # <<>> /\ Pending' = <<>>]_vars
    /\ [](Pending = <<>> => /\ pc = "await"
                            /\ conflatedMessage = SaleZero
                            /\ TimerStatus = "none")

\* Just after a handoff that followed a retry: the accumulator is the identity,
\* the consumer is back waiting, the relay still holds the spent timer.
C4_Witness ==
    /\ Len(delivered) >= 1
    /\ Pending = <<>>
    /\ delivered[Len(delivered)] # SaleZero
    /\ conflatedMessage = SaleZero
    /\ wake = "retry"
    /\ retryCh # nil
    /\ outCh

\* C5 (retry cancellation): a step that accepts a value while the retry timer
\* is armed stops that timer and clears retryCh, delivers nothing, and leaves
\* the accumulator equal to combine(old accumulator, new value) with the old
\* values still undelivered; and every handoff delivers, as one value, the fold
\* of everything accepted since the handoff before it. So A (attempt failed)
\* and B (accepted before the timer fired) reach the consumer as the single
\* value combine(A, B).
C5_RetryCancellation ==
    /\ [][(Accepts /\ TimerStatus = "armed") =>
            /\ ~timers'[retryTimer].running
            /\ retryCh' = nil
            /\ delivered' = delivered
            /\ Pending # <<>>
            /\ conflatedMessage = Fold(Pending)
            /\ conflatedMessage' = ConflateWith(conflatedMessage, inCh[1])
            /\ Pending' = Append(Pending, inCh[1])]_vars
    /\ [][Delivers => /\ delivered'[Len(delivered')] = Fold(Pending)
                      /\ Len(delivered') = Len(delivered) + 1]_vars
    /\ []((cuts # <<>> /\ cuts[1] = 2 /\ 1 \in dropped)
            => delivered[1] = ConflateWith(ConflateWith(SaleZero, accepted[1]), accepted[2]))

\* A and B delivered as one: the first attempt (with A alone) failed, B was
\* accepted while the timer was armed, and the first delivery is combine(A, B).
C5_Witness ==
    /\ Len(accepted) = 2
    /\ 1 \in dropped
    /\ wake = "input"
    /\ other = "armed"
    /\ cuts = <<2>>
    /\ accepted[1] # SaleZero
    /\ accepted[2] # SaleZero
    /\ delivered = <<ConflateWith(accepted[1], accepted[2])>>

\* C8 (accumulator invariant): the accumulator is the combine-fold, from the
\* identity and in arrival order, of the values accepted since the last
\* handoff; a step that neither accepts nor hands over (a failed attempt, a
\* timer firing, a timer wake-up) leaves it unchanged.
C8_Accumulator ==
    /\ [](conflatedMessage = Fold(Pending))
    /\ [][(~Accepts /\ ~Delivers) => conflatedMessage' = conflatedMessage]_vars

\* Two values in the accumulator after a failed attempt and a timer wake-up.
C8_Witness ==
    /\ Len(Pending) >= 2
    /\ conflatedMessage = Fold(Pending)
    /\ conflatedMessage.dollars = 3
    /\ Len(accepted) \in dropped
    /\ wake = "retry"
    /\ pc = "await"

\* C9 as claimed (tie-break): when the first select runs with both an input
\* offered and the timer's value waiting, it takes the input branch.
C9_InputFirst ==
    [][(pc = "await" /\ InputReady /\ RetryReady /\ pc' = "attempt") => Accepts]_vars

\* C9 as amended: when the first select runs with both an input offered and
\* the timer's value waiting, it takes either branch. The input branch merges
\* the input, stops the timer and clears retryCh; the timer branch consumes
\* the timer's value and leaves the accumulator, retryCh and the offered
\* input as they are, the producer still blocked on it. Neither loses the
\* input.
C9_EitherBranch ==
    /\ [][(pc = "await" /\ InputReady /\ RetryReady /\ pc' = "attempt") =>
            \/ /\ Accepts
               /\ conflatedMessage' = ConflateWith(conflatedMessage, inCh[1])
               /\ inCh' = <<>>
               /\ retryCh' = nil
               /\ ~timers'[retryTimer].running
            \/ /\ ~Accepts
               /\ conflatedMessage' = conflatedMessage
               /\ inCh' = inCh
               /\ retryCh' = retryCh
               /\ ~timers'[retryCh].C]_vars
    /\ [](accepted \o inCh = submitted)

\* The timer branch taken while an input was offered: the relay is attempting
\* delivery of the old accumulator and the producer is still blocked.
C9_Witness ==
    /\ pc = "attempt"
    /\ wake = "retry"
    /\ other = "input"
    /\ InputReady
    /\ Pending # <<>>

\* C10 (at most one timer): at most one timer is running or holds an
\* unconsumed fire value, and it is the one retryCh listens to, with the relay
\* in its first select; so when the relay reaches the second select, where a
\* new timer may be armed, every earlier timer has fired and been consumed or
\* has been stopped, and after an accepted input retryCh is nil.
C10_OneTimer ==
    /\ Cardinality({t \in TimerId : timers[t].running}) <= 1
    /\ \A t \in TimerId : timers[t].running => (retryCh = t /\ retryTimer = t /\ pc = "await")
    /\ \A t \in TimerId : (timers[t].C /\ retryCh = t) => pc = "await"
    /\ pc = "attempt" => TimerStatus = "none"
    /\ (pc = "attempt" /\ wake = "input") => retryCh = nil
    /\ retryCh # nil => retryCh = retryTimer

\* A second timer armed after the first was cancelled by an input: the first
\* is stopped, the second runs.
C10_Witness ==
    /\ wake = "input"
    /\ other = "armed"
    /\ pc = "await"
    /\ TimerStatus = "armed"
    /\ Len(accepted) >= 2
    /\ Cardinality({t \in TimerId : timers[t].running}) = 1

\* C2 (non-blocking submit): whatever the consumer does, and in particular if
\* it never receives, the value the producer is blocked on is eventually
\* accepted; the relay in its second select always has a step it can take at
\* once (hand over, or arm a timer) and so always returns to its first select.
C2_NonBlockingSubmit ==
    /\ InputReady ~> (~InputReady /\ accepted = submitted)
    /\ [](pc = "attempt" => (outCh \/ FreeTimers(timers, retryTimer) # {}))
    /\ (pc = "attempt") ~> (pc = "await")

\* Every value accepted, none delivered, the consumer never having asked.
C2_Witness ==
    /\ Len(accepted) = MaxSubmit
    /\ inCh = <<>>
    /\ delivered = <<>>
    /\ ~outCh
    /\ pc = "await"
    /\ TimerStatus = "armed"

\* C3 (eventual delivery): a consumer waiting on outCh while something
\* submitted is undelivered is eventually handed a value; so if the consumer
\* keeps coming back to wait then, from some point after the producer's last
\* submission on, everything submitted has been delivered and the accumulator
\* is back at the identity; and while the consumer waits the relay takes at most one
\* timer wake-up before it delivers.
C3_EventualDelivery ==
    /\ (outCh /\ Len(submitted) > LastCut) ~> ~outCh
    /\ ([]<>outCh) => <>[](LastCut = Len(submitted) /\ conflatedMessage = SaleZero)
    /\ [](retries <= 1)

\* The consumer came to wait while a retry timer was armed; the timer woke the
\* relay once and the relay delivered all that was submitted.
C3_Witness ==
    /\ Len(submitted) = MaxSubmit
    /\ LastCut = MaxSubmit
    /\ Len(cuts) = 1
    /\ wake = "retry"
    /\ pc = "await"
    /\ delivered[1] = Fold(submitted)

----------------------------------------------------------------------------
(* ConflateV2 and ConflateV1: claims.                                      *)

\* C6 (ConflateV2 eventually sends the latest): a consumer waiting on outCh
\* while the latest submission is undelivered is eventually handed a value;
\* every value handed over is the latest one accepted at that moment; so if
\* the consumer keeps coming back to wait then, from some point after the
\* producer's last submission on, the last value delivered is the last value
\* submitted.
C6_LatestV2 ==
    /\ (outCh /\ Len(submitted) > LastCut) ~> ~outCh
    /\ ([]<>outCh) =>
        <>[](submitted # <<>> =>
                /\ LastCut = Len(submitted)
                /\ delivered[Len(delivered)] = submitted[Len(submitted)])
    /\ [](\A i \in 1..Len(cuts) : cuts[i] >= 1 /\ delivered[i] = accepted[cuts[i]])

\* The last submission delivered after a retry, an earlier one never delivered.
C6_Witness ==
    /\ Len(submitted) = MaxSubmit
    /\ LastCut = MaxSubmit
    /\ wake = "retry"
    /\ delivered[Len(delivered)] = submitted[MaxSubmit]
    /\ submitted[MaxSubmit] # submitted[MaxSubmit - 1]
    /\ \A i \in 1..Len(cuts) : cuts[i] # MaxSubmit - 1

\* C7 (ConflateV1): the producer's blocked send is always eventually accepted,
\* whatever the consumer does; each accepted value gets exactly one delivery
\* attempt, made before the next value is accepted, which either hands it to
\* the consumer or discards it; a discarded value is never delivered later; the
\* delivered values are the accepted values at strictly increasing positions.
C7_DropsV1 ==
    /\ InputReady ~> (~InputReady /\ accepted = submitted)
    /\ (pc = "attempt") ~> (pc = "await")
    /\ [](/\ Len(delivered) = Len(cuts)
          /\ \A i \in 1..Len(cuts) :
                /\ cuts[i] > (IF i = 1 THEN 0 ELSE cuts[i - 1])
                /\ cuts[i] <= Len(accepted)
                /\ delivered[i] = accepted[cuts[i]]
                /\ cuts[i] \notin dropped
          /\ \A k \in 1..Len(accepted) :
                (k \in dropped \/ \E i \in 1..Len(cuts) : cuts[i] = k)
                    <=> (k < Len(accepted) \/ pc = "await")
          /\ accepted \o inCh = submitted)
    /\ [][Accepts => pc = "await" /\ pc' = "attempt"]_vars

\* A run in which a submitted value is never delivered: the producer is done,
\* the relay is back at its receive, one value was discarded and a later one
\* was delivered.
C7_Witness ==
    /\ Len(accepted) = MaxSubmit
    /\ pc = "await"
    /\ \E k \in dropped : k < LastCut /\ accepted[k] # SaleZero
    /\ Len(delivered) < Len(accepted)

----------------------------------------------------------------------------
(* ConflateV3: timers and retries.                                         *)

\* This step is the first select taking `case <-retryCh`.
WakesByTimer == pc = "await" /\ pc' = "attempt" /\ ~Accepts

\* C11 (no stale wake-up): a step in which the timer wakes the relay receives
\* from the channel of the timer in retryTimer, the one armed by the last
\* delivery attempt, which failed, with undelivered values in the accumulator
\* (no input was accepted since: the relay has been in its first select); so
\* every delivery attempt follows an accepted input or such a timer. A step
\* that accepts an input, whatever its timer was doing (running, fired,
\* stopped before, spent), touches no other timer and leaves no timer running
\* and none the relay listens to.
C11_NoStaleWake ==
    /\ [][WakesByTimer =>
            /\ retryCh # nil
            /\ retryCh = retryTimer
            /\ timers[retryCh].C
            /\ lastAttempt = "failed"
            /\ Len(accepted) \in dropped
            /\ Pending # <<>>]_vars
    /\ [](pc = "attempt" =>
            \/ wake = "input"
            \/ wake = "retry" /\ lastAttempt = "failed" /\ Pending # <<>>)
    /\ [][Accepts =>
            /\ TimerStatus' = "none"
            /\ \A t \in TimerId : ~timers'[t].running
            /\ \A t \in TimerId : t # retryTimer => timers'[t] = timers[t]]_vars

\* A timer stopped after it had fired still holds its value; the relay has
\* delivered since and waits with the consumer waiting too, not woken.
C11_Witness ==
    /\ \E t \in TimerId : timers[t].C /\ t = retryTimer
    /\ retryCh = nil
    /\ pc = "await"
    /\ wake = "input"
    /\ other = "fired"
    /\ lastAttempt = "delivered"
    /\ outCh

\* A retry is pending: the timer the relay listens to is running or has fired
\* and not been received from.
RetryPending == TimerStatus \in {"armed", "fired"}

C13_UnboundedRetry ==
    /\ [](pc = "await" /\ Pending # <<>> => RetryPending /\ lastAttempt = "failed")
    /\ (pc = "await" /\ Pending # <<>>) ~> (pc = "attempt")
    /\ [][(pc = "attempt" /\ pc' = "await" /\ ~Delivers) =>
            /\ TimerStatus' = "armed"
            /\ retryTimer' # retryTimer
            /\ conflatedMessage' = conflatedMessage]_vars

\* The retry of a retry: an attempt made on a timer wake-up failed and the
\* relay waits on a new timer, the consumer never having asked.
C13_Witness ==
    /\ pc = "await"
    /\ wake = "retry"
    /\ lastAttempt = "failed"
    /\ TimerStatus = "armed"
    /\ delivered = <<>>
    /\ Len(accepted) = MaxSubmit
    /\ ~outCh

\* The positions in accepted at which a delivery was made.
CutSet == { cuts[i] : i \in 1..Len(cuts) }

\* C14 (strict alternation): the relay leaves its first select only by one
\* wake-up (an accepted input or a timer received from) and then is in its
\* second select, which it leaves only by one delivery attempt (a handoff or a
\* failure) back to the first; so every accepted value has had a delivery
\* attempt before the next one is accepted. Hence as long as no attempt has
\* failed, the i-th value delivered is combine(identity, v_i), v_i the i-th
\* value accepted, and at most one value is in the accumulator.
C14_Alternation ==
    /\ [][(pc = "await" /\ pc' # pc) =>
            /\ pc' = "attempt"
            /\ Accepts \/ (wake' = "retry" /\ RetryReady /\ accepted' = accepted)
            /\ delivered' = delivered /\ lastAttempt' = lastAttempt]_vars
    /\ [][(pc = "attempt" /\ pc' # pc) =>
            /\ pc' = "await"
            /\ Delivers \/ (lastAttempt' = "failed" /\ Len(accepted) \in dropped')
            /\ accepted' = accepted]_vars
    /\ [][Accepts => pc = "await" /\ pc' = "attempt"]_vars
    /\ [][(Delivers \/ dropped' # dropped) => pc = "attempt" /\ pc' = "await"]_vars
    /\ [](\A k \in 1..Len(accepted) :
            (k < Len(accepted) \/ pc = "await") => (k \in dropped \/ k \in CutSet))
    /\ [](dropped = {} =>
            /\ Len(Pending) <= 1
            /\ \A i \in 1..Len(cuts) :
                cuts[i] = i /\ delivered[i] = ConflateWith(SaleZero, accepted[i]))

\* The consumer was ready at every attempt: each value submitted was
\* delivered on its own, none conflated.
C14_Witness ==
    /\ dropped = {}
    /\ Len(delivered) = MaxSubmit
    /\ \A i \in 1..Len(delivered) : delivered[i] = submitted[i] /\ submitted[i] # SaleZero
    /\ delivered[1] # delivered[2]
    /\ pc = "await"

----------------------------------------------------------------------------
(* ConflateV2 beside ConflateV3.                                           *)

\* C15 (ConflateV2 delivers no message twice): lastMsg keeps its value after a
\* successful send, and still the values delivered are the values accepted at
\* strictly increasing positions, each the latest accepted when it was sent,
\* so none is delivered twice and none before the first submission; once the
\* latest value is delivered the relay waits with no timer able to wake it.
C15_NoRepeatV2 ==
    /\ Len(delivered) = Len(cuts)
    /\ \A i \in 1..Len(cuts) :
        /\ cuts[i] >= 1
        /\ cuts[i] > (IF i = 1 THEN 0 ELSE cuts[i - 1])
        /\ cuts[i] <= Len(accepted)
        /\ delivered[i] = accepted[cuts[i]]
    /\ accepted \o inCh = submitted
    /\ accepted = <<>> => (delivered = <<>> /\ lastMsg = SaleZero /\ pc = "await")
    /\ accepted # <<>> => lastMsg = accepted[Len(accepted)]
    /\ Pending = <<>> => (pc = "await" /\ ~RetryPending)

\* After a delivery made on a timer wake-up: lastMsg still holds the value
\* delivered, the consumer waits again, retryCh still holds the spent timer's
\* channel, and the value has been delivered once.
C15_Witness ==
    /\ Len(delivered) = 1
    /\ Len(accepted) = MaxSubmit
    /\ lastMsg = delivered[1]
    /\ lastMsg # SaleZero
    /\ wake = "retry"
    /\ retryCh # nil
    /\ pc = "await"
    /\ outCh
    /\ inCh = <<>>

\* The side-by-side run. Both goroutines are given the same events: every
\* value the producer sends reaches both, the consumer's readiness is seen by
\* both, the runtime fires timer t for both, and a select with two ready cases
\* resolves the same way in both. Each goroutine takes the step only if its
\* own state allows it, so a difference in state shows as a difference in
\* what they do.

\* A Conflater whose ConflateWith keeps the latest value: combine(acc, new) = new.
LatestWith(s, s2) == s2

\* t.Stop() under one Go runtime: keep tells whether a value already sent
\* into C stays there.
StopAs(ts, t, keep) ==
    [ts EXCEPT ![t] = [running |-> FALSE, C |-> keep /\ ts[t].C]]

\* `case <-retryCh` can proceed in the goroutine with locals r.
RetryReadyIn(r) == r.retryCh # nil /\ r.timers[r.retryCh].C

\* StepInputV3 with the Sale merge in place of the latest-wins combine.
StepInputV3_Merge(r, v, keep) ==
    [r EXCEPT !.msg = ConflateWith(r.msg, v),
              !.timers = IF r.retryTimer # nil THEN StopAs(r.timers, r.retryTimer, keep) ELSE @,
              !.retryCh = IF r.retryTimer # nil THEN nil ELSE @,
              !.pc = "attempt"]

\* ConflateV3, first select, `case lastMsg := <-inCh`, having received v.
StepInputV3(r, v, keep) ==
    [r EXCEPT !.msg = LatestWith(r.msg, v),
              !.timers = IF r.retryTimer # nil THEN StopAs(r.timers, r.retryTimer, keep) ELSE @,
              !.retryCh = IF r.retryTimer # nil THEN nil ELSE @,
              !.pc = "attempt"]

\* ConflateV2, first select, `case lastMsg = <-inCh`, having received v.
StepInputV2(r, v, keep) ==
    [r EXCEPT !.msg = v,
              !.timers = IF r.retryTimer # nil THEN StopAs(r.timers, r.retryTimer, keep) ELSE @,
              !.retryCh = IF r.retryTimer # nil THEN nil ELSE @,
              !.pc = "attempt"]

\* First select, `case <-retryCh:`, the same in both functions.
StepRetry(r) ==
    [r EXCEPT !.timers = [r.timers EXCEPT ![r.retryCh].C = FALSE],
              !.pc = "attempt"]

\* ConflateV3, second select, `case outCh <- conflatedMessage`.
StepSendV3(r) ==
    [r EXCEPT !.sent = Append(@, r.msg),
              !.msg = ZeroValue(r.msg),
              !.pc = "await"]

\* ConflateV2, second select, `case outCh <- lastMsg`.
StepSendV2(r) ==
    [r EXCEPT !.sent = Append(@, r.msg),
              !.pc = "await"]

\* Second select, `default`, the same in both functions.
StepArm(r) ==
    LET t == CHOOSE u \in FreeTimers(r.timers, r.retryTimer) : TRUE
    IN  [r EXCEPT !.timers = NewTimer(r.timers, r.retryTimer, t),
                  !.retryTimer = t,
                  !.retryCh = t,
                  !.pc = "await"]

\* The runtime fires timer t where it is running.
StepFire(r, t) ==
    IF r.timers[t].running
    THEN [r EXCEPT !.timers = [r.timers EXCEPT ![t] = [running |-> FALSE, C |-> TRUE]]]
    ELSE r

mainVars == <<pc, relayVars, accepted, delivered, cuts, dropped, wake, other, retries,
              lastAttempt>>

\* The producer's value is received, by each goroutine waiting in its first select.
PairRecvInput ==
    /\ InputReady
    /\ relayV3.pc = "await" \/ relayV2.pc = "await"
    /\ \E keep \in BOOLEAN :
        /\ relayV3' = IF relayV3.pc = "await" THEN StepInputV3(relayV3, inCh[1], keep)
                      ELSE relayV3
        /\ relayV2' = IF relayV2.pc = "await" THEN StepInputV2(relayV2, inCh[1], keep)
                      ELSE relayV2
    /\ inCh' = <<>>
    /\ UNCHANGED <<outCh, submitted, mainVars>>

\* The first select takes the timer case, in each goroutine where it is ready.
PairRecvRetry ==
    /\ \/ relayV3.pc = "await" /\ RetryReadyIn(relayV3)
       \/ relayV2.pc = "await" /\ RetryReadyIn(relayV2)
    /\ relayV3' = IF relayV3.pc = "await" /\ RetryReadyIn(relayV3) THEN StepRetry(relayV3)
                  ELSE relayV3
    /\ relayV2' = IF relayV2.pc = "await" /\ RetryReadyIn(relayV2) THEN StepRetry(relayV2)
                  ELSE relayV2
    /\ UNCHANGED <<inCh, outCh, submitted, mainVars>>

\* The consumer is waiting: each goroutine at its second select sends.
PairDeliver ==
    /\ outCh
    /\ relayV3.pc = "attempt" \/ relayV2.pc = "attempt"
    /\ relayV3' = IF relayV3.pc = "attempt" THEN StepSendV3(relayV3) ELSE relayV3
    /\ relayV2' = IF relayV2.pc = "attempt" THEN StepSendV2(relayV2) ELSE relayV2
    /\ outCh' = FALSE
    /\ UNCHANGED <<inCh, submitted, mainVars>>

\* The consumer is not waiting: each goroutine at its second select takes
\* `default`.
PairArmRetry ==
    /\ ~outCh
    /\ relayV3.pc = "attempt" \/ relayV2.pc = "attempt"
    /\ FreeTimers(relayV3.timers, relayV3.retryTimer) # {}
    /\ FreeTimers(relayV2.timers, relayV2.retryTimer) # {}
    /\ relayV3' = IF relayV3.pc = "attempt" THEN StepArm(relayV3) ELSE relayV3
    /\ relayV2' = IF relayV2.pc = "attempt" THEN StepArm(relayV2) ELSE relayV2
    /\ UNCHANGED <<inCh, outCh, submitted, mainVars>>

\* The runtime fires timer t.
PairTimerFire ==
    \E t \in TimerId :
        /\ relayV3.timers[t].running \/ relayV2.timers[t].running
        /\ relayV3' = StepFire(relayV3, t)
        /\ relayV2' = StepFire(relayV2, t)
        /\ UNCHANGED <<inCh, outCh, submitted, mainVars>>

NextPair ==
    \/ producer
    \/ consumer
    \/ PairTimerFire
    \/ PairRecvInput
    \/ PairRecvRetry
    \/ PairDeliver
    \/ PairArmRetry

SpecPair == Init /\ [][NextPair]_vars

\* C16 (ConflateV2 is ConflateV3 with a latest-wins combine): given the same
\* events the two goroutines are always at the same select, hold the same
\* timer in the same condition, listen to the same timer channel, offer the
\* same value when they attempt a send, and have sent the same values; they
\* leave a select together, arm a timer together and stop one together.
C16_SameAsV3Latest ==
    /\ [](/\ relayV2.pc = relayV3.pc
          /\ relayV2.retryTimer = relayV3.retryTimer
          /\ relayV2.retryCh = relayV3.retryCh
          /\ relayV2.timers = relayV3.timers
          /\ relayV2.sent = relayV3.sent
          /\ relayV3.pc = "attempt" => relayV2.msg = relayV3.msg)
    /\ [][/\ relayV2.pc' # relayV2.pc <=> relayV3.pc' # relayV3.pc
          /\ relayV2.retryTimer' # relayV2.retryTimer <=> relayV3.retryTimer' # relayV3.retryTimer
          /\ relayV2.timers' # relayV2.timers <=> relayV3.timers' # relayV3.timers
          /\ Len(relayV2.sent') > Len(relayV2.sent) <=> Len(relayV3.sent') > Len(relayV3.sent)]_vars

\* Both have sent two values, the second after a value was replaced while
\* undelivered and a timer was armed and stopped; ConflateV2 still holds the
\* value it sent, ConflateV3 holds the zero value.
C16_Witness ==
    /\ Len(submitted) = MaxSubmit
    /\ inCh = <<>>
    /\ Len(relayV3.sent) = 2
    /\ relayV2.sent = relayV3.sent
    /\ relayV3.sent[2] = submitted[MaxSubmit]
    /\ relayV3.sent[1] # relayV3.sent[2]
    /\ relayV3.pc = "await"
    /\ relayV2.pc = "await"
    /\ relayV3.retryTimer # nil
    /\ relayV3.retryCh = nil
    /\ relayV3.msg = SaleZero
    /\ relayV2.msg = submitted[MaxSubmit]
    /\ relayV2.msg # SaleZero

====
